---- MODULE Spec2Model ----
(***************************************************************************)
(* Model of clang/types/parser/parser.go: the recursive-descent parser     *)
(* that turns a C qualType (a stream of scanner tokens) into a type.       *)
(*                                                                         *)
(* Every Go function of the parser is an operator of the same name; the    *)
(* labels of parser.parse (retry, ident, nextTok) are operators too, and   *)
(* each case of its token switch is an operator case<TOKEN>.  A call of    *)
(* an entry point is one action of Spec.  SpecRun runs a ParseType call    *)
(* step by step, one action per label and loop turn of the source, with    *)
(* the call stack of parse and parseArgs kept in the variable mach.        *)
(*                                                                         *)
(* A qualType is modelled as the sequence of (tok, lit) pairs the scanner  *)
(* delivers for it; the position of a token is its index in that sequence. *)
(* log.Fatalln ends the process: it is modelled as the value Exit in the   *)
(* error position, which every `if err != nil { return }` of the parser    *)
(* hands up unchanged, so that the call's outcome is "exit".               *)
(***************************************************************************)
EXTENDS Integers, Sequences, FiniteSets, TLC

VARIABLES op, pc, lit, qflags, lret, qualType, inFlags, ret, mach

vars == <<op, pc, lit, qflags, lret, qualType, inFlags, ret, mach>>

-----------------------------------------------------------------------------
(* Flags: bit sets kept as integers, as in the source.                     *)

FlagIsParam == 1
FlagGetRetType == 2

flagShort == 1
flagLong == 2
flagLongLong == 4
flagUnsigned == 8
flagSigned == 16
flagComplex == 32

\* (flags & f) != 0, for a single bit f
HasFlag(flags, f) == (flags \div f) % 2 = 1

\* flags | f, for a single bit f
OrFlag(flags, f) == IF HasFlag(flags, f) THEN flags ELSE flags + f

\* flags &^ f, for a single bit f
AndNotFlag(flags, f) == IF HasFlag(flags, f) THEN flags - f ELSE flags

isParam(flags) == HasFlag(flags, FlagIsParam)

getRetType(flags) == HasFlag(flags, FlagGetRetType)

-----------------------------------------------------------------------------
(* Types (go/types values, compared structurally).                         *)

Nil == [kind |-> "nil"]

Typ(name) == [kind |-> "Basic", name |-> name]

Named(name) == [kind |-> "Named", name |-> name]

Void == Typ("void")

UnsafePointer == Typ("unsafe.Pointer")

NewPointer(t) == [kind |-> "Pointer", elem |-> t]

NewArray(t, n) == [kind |-> "Array", elem |-> t, len |-> n]

\* types.NewSignature(nil, types.NewTuple(args...), results, false)
NewSignature(args, results) == [kind |-> "Signature", params |-> args, results |-> results]

NotVoid(t) == t # Void

-----------------------------------------------------------------------------
(* Errors.                                                                 *)

NoErr == [kind |-> "nil"]

ErrNotFound == [kind |-> "ErrNotFound"]

ErrInvalidType == [kind |-> "ErrInvalidType"]

ErrUnexpectedEOF == [kind |-> "io.ErrUnexpectedEOF"]

\* log.Fatalln: the process ends, no caller sees a return value
Exit == [kind |-> "exit"]

\* newError that leaves the position out (token.NoPos)
newErrorNoPos(p, errMsg) ==
    [kind |-> "ParseTypeError", QualType |-> p.src, Pos |-> 0, ErrMsg |-> errMsg]

newError(p, errMsg) ==
    [kind |-> "ParseTypeError", QualType |-> p.src, Pos |-> p.pos, ErrMsg |-> errMsg]

-----------------------------------------------------------------------------
(* The scanner side of the parser.                                         *)

\* token.Token.String() for the tokens of this grammar
TokString(tok) ==
    CASE tok = "MUL" -> "*"
      [] tok = "XOR" -> "^"
      [] tok = "LPAREN" -> "("
      [] tok = "RPAREN" -> ")"
      [] tok = "LBRACK" -> "["
      [] tok = "RBRACK" -> "]"
      [] tok = "COMMA" -> ","
      [] OTHER -> tok

\* p := &parser{pkg: pkg, scope: scope}; p.s.Init(file, qualType, nil)
NewParser(src) == [src |-> src, idx |-> 0, pos |-> 0, tok |-> "ILLEGAL", lit |-> ""]

\* p.pos, p.tok, p.lit = p.s.Scan(); at the end of the source Scan keeps
\* answering EOF
next(p) ==
    IF p.idx < Len(p.src)
    THEN [p EXCEPT !.idx = p.idx + 1, !.pos = p.idx + 1,
                   !.tok = p.src[p.idx + 1].tok, !.lit = p.src[p.idx + 1].lit]
    ELSE [p EXCEPT !.pos = Len(p.src) + 1, !.tok = "EOF", !.lit = ""]

\* expect2 that takes any token
expect2Any(p, tokExp, tokExp2) == [p |-> next(p), err |-> NoErr]

\* the values of expect and expect2: the parser after p.next() and the error
expect(p, tokExp) ==
    LET p1 == next(p) IN
    IF p1.tok # tokExp
    THEN [p |-> p1, err |-> newError(p1, "expect " \o TokString(tokExp) \o ", got " \o TokString(p1.tok))]
    ELSE [p |-> p1, err |-> NoErr]

expect2(p, tokExp, tokExp2) ==
    LET p1 == next(p) IN
    IF p1.tok # tokExp /\ p1.tok # tokExp2
    THEN [p |-> p1, err |-> newError(p1, "expect " \o TokString(tokExp) \o ", got " \o TokString(p1.tok))]
    ELSE [p |-> p1, err |-> NoErr]

-----------------------------------------------------------------------------
(* The registry the parser is given (p.scope): the names it resolves.      *)

scope ==
    [n \in {"void", "char", "float", "double", "__int128", "Foo"} |->
        CASE n = "void" -> Void
          [] n = "char" -> Typ("int8")
          [] n = "float" -> Typ("float32")
          [] n = "double" -> Typ("float64")
          [] n = "__int128" -> Typ("int128")
          [] OTHER -> Named(n)]

\* _, o := p.scope.LookupParent(lit, token.NoPos)
LookupParent(name) == IF name \in DOMAIN scope THEN scope[name] ELSE Nil

-----------------------------------------------------------------------------
(* lookupType.  The value has the fields t and err of the Go function and  *)
(* `scoped`, which tells whether p.scope.LookupParent was called.          *)

intTypes ==
    [i \in 0..15 |->
        CASE i = 0 -> Typ("int32")
          [] i = flagShort -> Typ("int16")
          [] i = flagLong -> Typ("long")
          [] i = flagLong + flagLongLong -> Typ("int64")
          [] i = flagUnsigned -> Typ("uint32")
          [] i = flagShort + flagUnsigned -> Typ("uint16")
          [] i = flagLong + flagUnsigned -> Typ("ulong")
          [] i = flagLong + flagLongLong + flagUnsigned -> Typ("uint64")
          [] OTHER -> Nil]

LookupRet(t, err, scoped) == [t |-> t, err |-> err, scoped |-> scoped]

\* log.Fatalln("lookupType: TODO - invalid type")
lookupInvalid == LookupRet(Nil, Exit, FALSE)

lookupComplex(name) ==
    CASE name = "float" -> LookupRet(Typ("complex64"), NoErr, FALSE)
      [] name = "double" -> LookupRet(Typ("complex128"), NoErr, FALSE)
      [] OTHER -> lookupInvalid

lookupInt(flags) ==
    LET t == intTypes[AndNotFlag(flags, flagSigned)] IN
    IF t # Nil THEN LookupRet(t, NoErr, FALSE) ELSE lookupInvalid

\* lookupChar with the two cases exchanged
lookupCharSwapped(flags) ==
    CASE flags = flagUnsigned -> LookupRet(Typ("int8"), NoErr, FALSE)
      [] flags = flagSigned -> LookupRet(Typ("uint8"), NoErr, FALSE)
      [] OTHER -> lookupInvalid

lookupChar(flags) ==
    CASE flags = flagUnsigned -> LookupRet(Typ("uint8"), NoErr, FALSE)
      [] flags = flagSigned -> LookupRet(Typ("int8"), NoErr, FALSE)
      [] OTHER -> lookupInvalid

lookupDouble(flags) ==
    CASE flags = flagLong -> LookupRet(Typ("long double"), NoErr, FALSE)
      [] OTHER -> lookupInvalid

lookupInt128(flags) ==
    CASE flags = flagSigned -> LookupRet(Typ("int128"), NoErr, FALSE)
      [] flags = flagUnsigned -> LookupRet(Typ("uint128"), NoErr, FALSE)
      [] OTHER -> lookupInvalid

lookupScope(name) ==
    LET o == LookupParent(name) IN
    IF o # Nil THEN LookupRet(o, NoErr, TRUE) ELSE LookupRet(Nil, ErrNotFound, TRUE)

lookupType(name, flags) ==
    IF flags # 0
    THEN IF HasFlag(flags, flagComplex)
         THEN lookupComplex(name)
         ELSE CASE name = "int" -> lookupInt(flags)
                [] name = "char" -> lookupChar(flags)
                [] name = "double" -> lookupDouble(flags)
                [] name = "__int128" -> lookupInt128(flags)
                [] OTHER -> lookupInvalid
    ELSE IF name = "int"
         THEN LookupRet(Typ("int32"), NoErr, FALSE)
         ELSE lookupScope(name)

-----------------------------------------------------------------------------
(* Pointers and arrays.                                                    *)

\* newPointer that makes a Pointer of every type
newPointerPlain(t) == NewPointer(t)

newPointer(t) == IF NotVoid(t) THEN NewPointer(t) ELSE UnsafePointer

\* strconv.ParseInt(lit, 10, 64) on the literals the model's scanner delivers
DecimalValue == [l \in {"0", "3", "7", "10"} |->
                    CASE l = "0" -> 0 [] l = "3" -> 3 [] l = "7" -> 7 [] OTHER -> 10]

ParseInt(l) ==
    IF l \in DOMAIN DecimalValue
    THEN [n |-> DecimalValue[l], err |-> ""]
    ELSE [n |-> 0, err |-> "strconv.ParseInt: value out of range"]

\* the value of parseArray, parseArrays and parseFunc: parser, type, error
TypeRet(p, t, err) == [p |-> p, t |-> t, err |-> err]

\* the end of parseArray without the parameter decay
arrayOfNoDecay(t, n, flags) == NewArray(t, n)

\* the `if isParam(inFlags)` at the end of parseArray
arrayOf(t, n, flags) == IF isParam(flags) THEN newPointer(t) ELSE NewArray(t, n)

parseArray(p, t, flags) ==
    IF t = Nil
    THEN TypeRet(p, Nil, newError(p, "array to nil"))
    ELSE LET p1 == next(p) IN
         CASE p1.tok = "RBRACK" -> TypeRet(p1, arrayOf(t, -1, flags), NoErr)
           [] p1.tok = "INT" ->
                LET n == ParseInt(p1.lit)
                    e == expect(p1, "RBRACK")
                IN  IF n.err # ""
                    THEN TypeRet(p1, Nil, newError(p1, n.err))
                    ELSE IF e.err # NoErr
                         THEN TypeRet(e.p, Nil, e.err)
                         ELSE TypeRet(e.p, arrayOf(t, n.n, flags), NoErr)
           [] OTHER -> TypeRet(p1, Nil, newError(p1, "array length not an integer"))

RECURSIVE parseArrays(_, _, _)

\* parseArrays after p.next(): the end of input ends the run of brackets
parseArraysEOF(p, t, flags) ==
    IF p.tok = "EOF" THEN TypeRet(p, t, NoErr) ELSE parseArrays(p, t, flags)

\* parseArrays after its call of parseArray, whose value is r
parseArraysNext(r, flags) ==
    IF r.err # NoErr THEN r ELSE parseArraysEOF(next(r.p), r.t, flags)

parseArrays(p, t, flags) == parseArraysNext(parseArray(p, t, flags), flags)

-----------------------------------------------------------------------------
(* parse, parseArgs and parseFunc.  An operator named after<Call> is the   *)
(* code that follows that call; its first parameter r is the call's value. *)

\* the value of parse: the parser and the three results of the Go function
Return(p, t, isConst, err) == [p |-> p, t |-> t, isConst |-> isConst, err |-> err]

\* the value of parseArgs
ArgsRet(p, args, err) == [p |-> p, args |-> args, err |-> err]

RECURSIVE parseLoop(_, _, _, _, _)
RECURSIVE retry(_, _, _, _, _)
RECURSIVE ident(_, _, _, _, _)
RECURSIVE nextTok(_, _, _, _, _, _, _)
RECURSIVE parseArgsLoop(_, _)

\* parse is called with every flag value by ParseType and with FlagIsParam
\* by parseArgs
parse(p, flags) == parseLoop(p, flags, Nil, FALSE, 0)

\* afterParseArg that appends every argument, Void too
afterParseArgKeepVoid(r, args) ==
    IF r.err # NoErr
    THEN ArgsRet(r.p, <<>>, r.err)
    ELSE IF r.p.tok = "COMMA"
         THEN parseArgsLoop(r.p, Append(args, r.t))
         ELSE IF r.p.tok # "RPAREN"
              THEN ArgsRet(r.p, <<>>, newError(r.p, "expect )"))
              ELSE ArgsRet(r.p, Append(args, r.t), NoErr)

\* one turn of the for loop of parseArgs, after its call of parse
afterParseArg(r, args) ==
    IF r.err # NoErr
    THEN ArgsRet(r.p, <<>>, r.err)
    ELSE IF r.p.tok = "COMMA"
         THEN parseArgsLoop(r.p, IF NotVoid(r.t) THEN Append(args, r.t) ELSE args)
         ELSE IF r.p.tok # "RPAREN"
              THEN ArgsRet(r.p, <<>>, newError(r.p, "expect )"))
              ELSE ArgsRet(r.p, IF NotVoid(r.t) THEN Append(args, r.t) ELSE args, NoErr)

parseArgsLoop(p, args) == afterParseArg(parse(p, FlagIsParam), args)

parseArgs(p) == parseArgsLoop(p, <<>>)

\* parseFunc after its call of parseArgs
afterFuncArgs(r, results) ==
    IF r.err # NoErr
    THEN TypeRet(r.p, Nil, r.err)
    ELSE TypeRet(r.p, NewSignature(r.args, results), NoErr)

\* parseFunc that keeps a Void result in the signature
parseFuncKeepVoid(p, t, flags) == afterFuncArgs(parseArgs(p), <<t>>)

parseFunc(p, t, flags) ==
    afterFuncArgs(parseArgs(p), IF NotVoid(t) THEN <<t>> ELSE <<>>)

\* for { p.next(); retry: ...
parseLoop(p, flags, t, isConst, q) == retry(next(p), flags, t, isConst, q)

\* case token.MUL without the check for a missing base type
caseMULNoCheck(p, flags, t, isConst, q) ==
    parseLoop(p, flags, newPointer(t), isConst, q)

\* case token.MUL
caseMUL(p, flags, t, isConst, q) ==
    IF t = Nil
    THEN Return(p, Nil, FALSE, newError(p, "pointer to nil"))
    ELSE parseLoop(p, flags, newPointer(t), isConst, q)

\* case token.LBRACK after its call of parseArrays
afterArrays(r, flags, isConst, q) ==
    IF r.err # NoErr
    THEN Return(r.p, r.t, isConst, r.err)
    ELSE parseLoop(r.p, flags, r.t, isConst, q)

\* case token.LBRACK
caseLBRACK(p, flags, t, isConst, q) ==
    afterArrays(parseArrays(p, t, flags), flags, isConst, q)

\* afterExpect2 that returns the error of expect2 under every flag
afterExpect2NoStop(e, flags, t, isConst, q) ==
    IF e.err # NoErr
    THEN Return(e.p, t, isConst, e.err)
    ELSE nextTok(e.p, flags, t, isConst, q, FALSE, <<>>)

\* case token.LPAREN after its call of expect2
afterExpect2(e, flags, t, isConst, q) ==
    IF e.err # NoErr
    THEN IF getRetType(flags)
         THEN Return([e.p EXCEPT !.tok = "EOF"], t, isConst, NoErr)
         ELSE Return(e.p, t, isConst, e.err)
    ELSE nextTok(e.p, flags, t, isConst, q, FALSE, <<>>)

\* case token.LPAREN, up to the label nextTok
caseLPAREN(p, flags, t, isConst, q) ==
    IF t = Nil
    THEN Return(p, Nil, FALSE, newError(p, "no function return type"))
    ELSE afterExpect2(expect2(p, "MUL", "XOR"), flags, t, isConst, q)

\* composeRet that wraps every declarator that is no returned function in
\* a pointer, a function type too
composeRetAlwaysPointer(t, isRetFn, args) ==
    IF isRetFn THEN NewSignature(args, <<t>>) ELSE NewPointer(t)

\* the `if isRetFn ... else if` that closes case token.LPAREN
composeRet(t, isRetFn, args) ==
    IF isRetFn
    THEN NewSignature(args, <<t>>)
    ELSE IF t.kind # "Signature" THEN NewPointer(t) ELSE t

\* case token.LPAREN after the call of parseFunc or parseArrays that reads
\* what follows the closing `)`
afterDeclarator(r, flags, isConst, q, isRetFn, args) ==
    IF r.err # NoErr
    THEN Return(r.p, r.t, isConst, r.err)
    ELSE IF isRetFn /\ getRetType(flags)
         THEN Return([r.p EXCEPT !.tok = "EOF"], r.t, isConst, NoErr)
         ELSE parseLoop(r.p, flags, composeRet(r.t, isRetFn, args), isConst, q)

\* the p.next() and switch after the closing `)`: an argument list or
\* brackets must follow
declarator(p, flags, t, isConst, q, isRetFn, args) ==
    CASE p.tok = "LPAREN" ->
            afterDeclarator(parseFunc(p, t, flags), flags, isConst, q, isRetFn, args)
      [] p.tok = "LBRACK" ->
            afterDeclarator(parseArrays(p, t, 0), flags, isConst, q, isRetFn, args)
      [] OTHER -> Return(p, Nil, FALSE, newError(p, "unexpected " \o TokString(p.tok)))

\* afterInnerArgs that forgets the arguments it has parsed
afterInnerArgsDropped(r, flags, t, isConst, q) ==
    IF r.err # NoErr
    THEN Return(r.p, t, isConst, r.err)
    ELSE nextTok(r.p, flags, t, isConst, q, TRUE, <<>>)

\* nextTok, case token.LPAREN, after its call of parseArgs
afterInnerArgs(r, flags, t, isConst, q) ==
    IF r.err # NoErr
    THEN Return(r.p, t, isConst, r.err)
    ELSE nextTok(r.p, flags, t, isConst, q, TRUE, r.args)

\* the switch of nextTok: what stands between `(*` and the closing `)`
nextTokSwitch(p, flags, t, isConst, q, isRetFn, args) ==
    CASE p.tok = "RPAREN" -> declarator(next(p), flags, t, isConst, q, isRetFn, args)
      [] p.tok = "LPAREN" /\ ~isRetFn -> afterInnerArgs(parseArgs(p), flags, t, isConst, q)
      [] p.tok = "IDENT" /\ p.lit \in {"_Nullable", "_Nonnull"} ->
            nextTok(p, flags, t, isConst, q, isRetFn, args)
      [] OTHER -> Return(p, Nil, FALSE, newError(p, "expect )"))

\* nextTok: p.next()
nextTok(p, flags, t, isConst, q, isRetFn, args) ==
    nextTokSwitch(next(p), flags, t, isConst, q, isRetFn, args)

\* case token.RPAREN
caseRPAREN(p, flags, t, isConst, q) ==
    Return(p, IF t = Nil THEN Void ELSE t, isConst, NoErr)

\* case token.COMMA, token.EOF
caseEOF(p, flags, t, isConst, q) ==
    Return(p, t, isConst, IF t = Nil THEN ErrUnexpectedEOF ELSE NoErr)

\* retry: switch p.tok
retry(p, flags, t, isConst, q) ==
    CASE p.tok = "IDENT" -> ident(p, flags, t, isConst, q)
      [] p.tok = "MUL" -> caseMUL(p, flags, t, isConst, q)
      [] p.tok = "LBRACK" -> caseLBRACK(p, flags, t, isConst, q)
      [] p.tok = "LPAREN" -> caseLPAREN(p, flags, t, isConst, q)
      [] p.tok = "RPAREN" -> caseRPAREN(p, flags, t, isConst, q)
      [] p.tok \in {"COMMA", "EOF"} -> caseEOF(p, flags, t, isConst, q)
      [] OTHER -> Return(p, t, isConst, Exit)

\* addLong that promotes to long long only when `long` is the sole flag
addLongExact(q) == IF q = flagLong THEN OrFlag(q, flagLongLong) ELSE OrFlag(q, flagLong)

\* the case "long" of switch p.lit
addLong(q) == IF HasFlag(q, flagLong) THEN OrFlag(q, flagLongLong) ELSE OrFlag(q, flagLong)

\* the identifiers that switch p.lit handles without resolving a type
Keywords ==
    {"unsigned", "short", "long", "signed", "const", "_Complex",
     "volatile", "restrict", "_Nullable", "_Nonnull"}

\* the qualifier flags after the keyword name
addQualifier(name, q) ==
    CASE name = "unsigned" -> OrFlag(q, flagUnsigned)
      [] name = "short" -> OrFlag(q, flagShort)
      [] name = "long" -> addLong(q)
      [] name = "signed" -> OrFlag(q, flagSigned)
      [] name = "_Complex" -> OrFlag(q, flagComplex)
      [] OTHER -> q

\* the second half of `if flags != 0 { ... }`: no identifier follows the
\* pending qualifiers, they stand for int and the token is dispatched again
afterLookupInt(r, p, flags, isConst) ==
    IF r.err # NoErr
    THEN Return(p, r.t, isConst, r.err)
    ELSE retry(p, flags, r.t, isConst, 0)

\* `if flags != 0 { p.next(); ...`, after p.next()
pendingFlags(p, flags, t, isConst, q) ==
    IF p.tok = "IDENT"
    THEN ident(p, flags, t, isConst, q)
    ELSE IF t # Nil
         THEN Return(p, Nil, FALSE, newError(p, "illegal syntax: multiple types?"))
         ELSE afterLookupInt(lookupType("int", q), p, flags, isConst)

\* `if flags != 0 { ... }` after switch p.lit
identEnd(p, flags, t, isConst, q) ==
    IF q # 0
    THEN pendingFlags(next(p), flags, t, isConst, q)
    ELSE parseLoop(p, flags, t, isConst, q)

\* default: of switch p.lit, after its call of lookupType
afterLookup(r, p, flags, isConst) ==
    IF r.err # NoErr
    THEN Return(p, r.t, isConst, r.err)
    ELSE identEnd(p, flags, r.t, isConst, 0)

\* identDefault that resolves the identifier whether or not a type is there
identDefaultNoCheck(p, flags, t, isConst, q) ==
    afterLookup(lookupType(p.lit, q), p, flags, isConst)

\* default: of switch p.lit: the identifier names the base type
identDefault(p, flags, t, isConst, q) ==
    IF t # Nil
    THEN Return(p, Nil, FALSE, newError(p, "illegal syntax: multiple types?"))
    ELSE afterLookup(lookupType(p.lit, q), p, flags, isConst)

\* case "struct", "union", after p.next()
structTag(p, flags, t, isConst, q) ==
    IF p.tok # "IDENT"
    THEN Return(p, t, isConst, Exit)
    ELSE identDefault(p, flags, t, isConst, q)

\* ident whose case "const" leaves isConst alone
identNoConst(p, flags, t, isConst, q) ==
    CASE p.lit \in Keywords -> identEnd(p, flags, t, isConst, addQualifier(p.lit, q))
      [] p.lit \in {"struct", "union"} -> structTag(next(p), flags, t, isConst, q)
      [] OTHER -> identDefault(p, flags, t, isConst, q)

\* ident: switch p.lit; q holds the qualifier flags (the local `flags`)
ident(p, flags, t, isConst, q) ==
    CASE p.lit \in Keywords ->
            identEnd(p, flags, t, isConst \/ p.lit = "const", addQualifier(p.lit, q))
      [] p.lit \in {"struct", "union"} -> structTag(next(p), flags, t, isConst, q)
      [] OTHER -> identDefault(p, flags, t, isConst, q)

\* the value of ParseType: its three results, the parser it used, and
\* whether the call returned or the process ended in it
Outcome(outcome, r, err) ==
    [outcome |-> outcome, t |-> r.t, isConst |-> r.isConst, err |-> err, p |-> r.p]

\* ParseType after its call of parse, without the check for a trailing token
afterParseNoCheck(r) ==
    IF r.err = Exit
    THEN Outcome("exit", Return(r.p, Nil, FALSE, Exit), Exit)
    ELSE Outcome("return", r, r.err)

\* ParseType after its call of parse
afterParse(r) ==
    IF r.err = Exit
    THEN Outcome("exit", Return(r.p, Nil, FALSE, Exit), Exit)
    ELSE IF r.err # NoErr
         THEN Outcome("return", r, r.err)
         ELSE IF r.p.tok # "EOF"
              THEN Outcome("return", r, newError(r.p, "unexpect token " \o TokString(r.p.tok)))
              ELSE Outcome("return", r, NoErr)

ParseType(src, flags) == afterParse(parse(NewParser(src), flags))

-----------------------------------------------------------------------------
(* The calls checked: the inputs are drawn by Init, one action per entry   *)
(* point applies the function to them.                                     *)

\* the token the scanner makes of one lexeme of a qualType
T(s) ==
    CASE s = "*" -> [tok |-> "MUL", lit |-> ""]
      [] s = "^" -> [tok |-> "XOR", lit |-> ""]
      [] s = "(" -> [tok |-> "LPAREN", lit |-> ""]
      [] s = ")" -> [tok |-> "RPAREN", lit |-> ""]
      [] s = "[" -> [tok |-> "LBRACK", lit |-> ""]
      [] s = "]" -> [tok |-> "RBRACK", lit |-> ""]
      [] s = "," -> [tok |-> "COMMA", lit |-> ""]
      [] s \in {"0", "3", "7", "10", "9223372036854775808"} -> [tok |-> "INT", lit |-> s]
      [] OTHER -> [tok |-> "IDENT", lit |-> s]

Toks(ss) == [i \in DOMAIN ss |-> T(ss[i])]

MaxLen == 4

Alphabet == {"int", "unsigned", "Bar", "*", "(", ")", "[", "]", ",", "3"}

\* the sequences of at most n elements of S
SeqsUpTo(S, n) == UNION {[1..k -> S] : k \in 0..n}

\* every token sequence of at most MaxLen tokens of Alphabet
ShortInputs == SeqsUpTo({T(a) : a \in Alphabet}, MaxLen)

MaxQual == 3

QualKw == {"short", "long", "unsigned", "signed"}

BaseKw == {"int", "char", "double", "float", "__int128", "Foo"}

\* at most MaxQual qualifier keywords, then a base keyword or nothing
QualInputs ==
    {Toks(q \o b) : q \in SeqsUpTo(QualKw, MaxQual), b \in {<<>>} \cup {<<k>> : k \in BaseKw}}

MaxDims == 2

Bases == {<<"int">>, <<"void">>, <<"const", "Foo">>}

RECURSIVE Flatten(_)
Flatten(ss) == IF Len(ss) = 0 THEN <<>> ELSE ss[1] \o Flatten(Tail(ss))

\* a base type and at most MaxDims bracket groups
ArrayInputs ==
    {Toks(b \o Flatten(gs)) :
        b \in Bases,
        gs \in SeqsUpTo({<<"[", "3", "]">>, <<"[", "]">>, <<"[", "10", "]">>}, MaxDims)}

MaxArgs == 2

ArgTypes ==
    { <<"int">>, <<"void">>, <<"char", "*">>, <<"int", "[", "3", "]">>,
      <<"void", "(", "*", ")", "(", "int", ")">> }

RECURSIVE JoinArgs(_)
JoinArgs(as) ==
    IF Len(as) = 0 THEN <<>>
    ELSE IF Len(as) = 1 THEN as[1]
    ELSE as[1] \o <<",">> \o JoinArgs(Tail(as))

\* the argument lists of at most MaxArgs arguments
ArgLists == {JoinArgs(as) : as \in SeqsUpTo(ArgTypes, MaxArgs)}

Paren(x) == <<"(">> \o x \o <<")">>

\* parenthesized declarators: b (*)(A), b (^)(A), b (* _Nonnull)(A),
\* b (*)[n], b (A), b (*(A))(A1), b (*(A))[3], b (*(A)(A1)), each alone
\* and followed by one more token
DeclInputs ==
    LET A1s == {<<>>} \cup ArgTypes
        Trailers == {<<>>, <<"*">>, <<")">>}
        forms ==
            UNION { { Paren(<<"*">>) \o Paren(A),
                      Paren(<<"^">>) \o Paren(A),
                      Paren(<<"*", "_Nonnull">>) \o Paren(A),
                      Paren(A),
                      Paren(<<"*">> \o Paren(A)) \o <<"[", "3", "]">> } : A \in ArgLists }
            \cup { Paren(<<"*">> \o Paren(A)) \o Paren(A1) : A \in ArgLists, A1 \in A1s }
            \cup { Paren(<<"*">> \o Paren(A) \o Paren(A1)) : A \in ArgLists, A1 \in A1s }
            \cup { Paren(<<"*">>) \o <<"[", "3", "]">>, Paren(<<"*">>) \o <<"[", "]">>,
                   Paren(<<"*">>) \o <<"int">>, Paren(<<"*">>) }
    IN  {Toks(b \o f \o x) : b \in Bases, f \in forms, x \in Trailers}

\* what can stand before a token that the parser meets with no base type:
\* nothing, ignored qualifiers, an opened argument list
NilPrefixes ==
    { <<>>, <<"const">>, <<"volatile", "const">>,
      <<"int", "(", "*", ")", "(">>,
      <<"int", "(", "*", ")", "(", "int", ",">>,
      <<"int", "(", "*", "(">> }

\* `*`, `[`, `(`, `,`, an unknown name or nothing where a base type is due,
\* alone and followed by more
NilBaseInputs ==
    {Toks(pre \o x \o post) :
        pre \in NilPrefixes, x \in {<<"*">>, <<"[">>, <<"(">>, <<",">>, <<"Bar">>, <<>>},
        post \in {<<>>, <<"int">>, <<")">>, <<"3", "]">>, <<"*", ")">>}}

\* the qualTypes of the comment on ParseType, and those the properties name
Corpus ==
    { Toks(<<"unsigned", "int">>),
      Toks(<<"struct", "Foo">>),
      Toks(<<"struct", "*">>),
      Toks(<<"volatile", "Foo">>),
      Toks(<<"int", "(", "*", ")", "(", "void", "*", ",", "int", ",", "char", "*", "*", ",", "char", "*", "*", ")">>),
      Toks(<<"int", "(", "*", ")", "(", "void", ")">>),
      Toks(<<"void", "(", "*", "(", "int", ",", "void", "(", "*", ")", "(", "int", ")", ")", ")", "(", "int", ")">>),
      Toks(<<"const", "char", "*", "restrict">>),
      Toks(<<"const", "char", "[", "7", "]">>),
      Toks(<<"char", "*">>),
      Toks(<<"void">>),
      Toks(<<"int", "[", "9223372036854775808", "]">>),
      Toks(<<"int", "3">>),
      Toks(<<"short", "double">>),
      Toks(<<"short", "long", "int">>),
      Toks(<<"unsigned", "float">>),
      Toks(<<"_Complex", "int">>),
      Toks(<<"_Complex", "float">>),
      Toks(<<"long", "double">>),
      Toks(<<"int", "(", "*", ")", "(", "Bar", ")">>),
      Toks(<<"*", "int">>),
      Toks(<<"void", "(", "*", "(", "*", "(", "int", ")", ")", "(", "int", ")", ")", "(", "int", ")">>),
      Toks(<<"void", "*">>),
      Toks(<<"void", "*", "*">>),
      Toks(<<"const", "void", "*", "const">>),
      Toks(<<"void", "(", "*", ")", "[", "3", "]">>),
      Toks(<<"unsigned", "(", "*", "(", "long", ",", "int", ")", ")", "[", "3", "]", "[", "]">>),
      Toks(<<"int", "[", "3", "]", "*">>),
      Toks(<<"int", "[", "3", "]", "3", "]">>),
      Toks(<<"void", "(", "*", ")", "(", "int", "(", "*", ")", "[", "3", "]", ")">>) }

\* s with the lexeme x put in after its first i lexemes
InsertAt(s, i, x) == SubSeq(s, 1, i) \o <<x>> \o SubSeq(s, i + 1, Len(s))

ConstForms ==
    { <<"int">>, <<"char", "*">>, <<"char", "*", "*">>, <<"int", "[", "3", "]">>,
      <<"int", "(", "*", ")", "(", "char", "*", ")">>,
      <<"const", "int", "(", "*", ")", "(", "int", ")">>,
      <<"int", "(", "*", "(", "int", ")", ")", "(", "char", ")">> }

\* a declaration with one `const` more, at each place of it
ConstInputs ==
    {Toks(s) : s \in ConstForms} \cup
    UNION {{Toks(InsertAt(s, i, "const")) : i \in 0..Len(s)} : s \in ConstForms}

\* declarations that resolve one base type
Resolved == {<<"int">>, <<"unsigned", "int">>, <<"Foo">>, <<"const", "char">>, <<"unsigned">>}

\* what can stand between a resolved base type and a second one
Between == {<<"*">>, <<"const">>, <<"*", "*">>, <<"*", "const">>}

\* a second base type, or qualifier keywords for one
Second ==
    { <<"int">>, <<"char">>, <<"Bar">>, <<"Foo">>, <<"struct", "Foo">>, <<"unsigned">>,
      <<"long", "long">>, <<"unsigned", "int">>, <<"short", "const">> }

\* a resolved base type, possibly a second one, and what follows
MultiInputs ==
    {Toks(b \o m \o x \o post) :
        b \in Resolved, m \in Between \cup {<<>>}, x \in Second \cup {<<>>},
        post \in {<<>>, <<"*">>, <<")">>, <<"[", "3", "]">>}}

\* the families of longer inputs
LongInputs ==
    QualInputs \cup ArrayInputs \cup DeclInputs \cup NilBaseInputs \cup Corpus
        \cup ConstInputs \cup MultiInputs

Lits == {"int", "char", "double", "float", "__int128", "void", "Foo", "Bar"}

NoRet == [outcome |-> "none"]

\* no call is being run step by step
NoRun == [stack |-> <<>>]

Init ==
    /\ pc = "call"
    /\ lret = NoRet
    /\ ret = NoRet
    /\ mach = NoRun
    /\ \/ /\ op = "lookupType"
          /\ lit \in Lits
          /\ qflags \in 0..63
          /\ qualType = <<>>
          /\ inFlags = 0
       \/ /\ op = "ParseType"
          /\ lit = ""
          /\ qflags = 0
          /\ \/ qualType \in ShortInputs
             \/ qualType \in LongInputs
          /\ inFlags \in 0..3

LookupTypeCall ==
    /\ pc = "call"
    /\ op = "lookupType"
    /\ lret' = lookupType(lit, qflags)
    /\ pc' = "done"
    /\ UNCHANGED <<op, lit, qflags, qualType, inFlags, ret, mach>>

ParseTypeCall ==
    /\ pc = "call"
    /\ op = "ParseType"
    /\ ret' = ParseType(qualType, inFlags)
    /\ pc' = "done"
    /\ UNCHANGED <<op, lit, qflags, qualType, inFlags, lret, mach>>

Next == LookupTypeCall \/ ParseTypeCall

Spec == Init /\ [][Next]_vars

-----------------------------------------------------------------------------
(* The same call, run step by step.  mach holds the parser p, the call     *)
(* stack (a frame of parse holds its locals and the label it stands at, a  *)
(* frame of parseArgs its argument list), the value val that the call     *)
(* which returned last hands to its caller, and two counters: reads, the   *)
(* calls of p.next() so far, and retries, the `goto retry` jumps taken     *)
(* since the last of them.                                                 *)

\* the frame of a call parse(inFlags), at the head of its for loop
ParseFrame(flags) ==
    [fn |-> "parse", pc |-> "loop", flags |-> flags, t |-> Nil, isConst |-> FALSE,
     q |-> 0, isRetFn |-> FALSE, args |-> <<>>, aflags |-> 0, from |-> ""]

\* the frame of a call parseArgs(pkg), at the head of its for loop
ArgsFrame == [fn |-> "parseArgs", pc |-> "call", args |-> <<>>]

NoVal == [kind |-> "none"]

\* ParseType up to its call of p.parse(flags)
StartRun(src, flags) ==
    [p |-> NewParser(src), stack |-> <<ParseFrame(flags)>>, val |-> NoVal,
     reads |-> 0, retries |-> 0]

Top(mc) == mc.stack[Len(mc.stack)]

SetTop(mc, f) == [mc EXCEPT !.stack[Len(mc.stack)] = f]

Push(mc, f) == [mc EXCEPT !.stack = Append(@, f)]

\* p.next()
Read(mc) == [mc EXCEPT !.p = next(mc.p), !.reads = @ + 1, !.retries = 0]

\* a return of parse: its frame is left, its three results go to the caller
ReturnParse(mc, t, isConst, err) ==
    [mc EXCEPT !.stack = SubSeq(@, 1, Len(@) - 1),
               !.val = [kind |-> "parse", t |-> t, isConst |-> isConst, err |-> err]]

\* a return of parseArgs
ReturnArgs(mc, args, err) ==
    [mc EXCEPT !.stack = SubSeq(@, 1, Len(@) - 1),
               !.val = [kind |-> "args", args |-> args, err |-> err]]

\* log.Fatalln: the process ends, whatever the stack holds
ExitNow(mc, t, isConst) ==
    [mc EXCEPT !.stack = <<>>,
               !.val = [kind |-> "parse", t |-> t, isConst |-> isConst, err |-> Exit]]

\* p.tok = token.EOF; return, under FlagGetRetType
ReturnAsEOF(mc, t, isConst) ==
    ReturnParse([mc EXCEPT !.p.tok = "EOF"], t, isConst, NoErr)

\* for { p.next(); then the label retry
StepLoop(mc) == SetTop(Read(mc), [Top(mc) EXCEPT !.pc = "retry"])

\* case token.LPAREN up to the label nextTok; e is the value of expect2
StepLParen(mc, f, e) ==
    IF e.err # NoErr
    THEN IF getRetType(f.flags)
         THEN ReturnAsEOF(Read(mc), f.t, f.isConst)
         ELSE ReturnParse(Read(mc), f.t, f.isConst, e.err)
    ELSE SetTop(Read(mc), [f EXCEPT !.pc = "nextTok", !.isRetFn = FALSE, !.args = <<>>])

\* retry: switch p.tok
StepRetry(mc) ==
    LET f == Top(mc)
        p == mc.p
    IN  CASE p.tok = "IDENT" -> SetTop(mc, [f EXCEPT !.pc = "ident"])
          [] p.tok = "MUL" ->
                IF f.t = Nil
                THEN ReturnParse(mc, Nil, FALSE, newError(p, "pointer to nil"))
                ELSE SetTop(mc, [f EXCEPT !.t = newPointer(f.t), !.pc = "loop"])
          [] p.tok = "LBRACK" ->
                SetTop(mc, [f EXCEPT !.pc = "parseArrays", !.aflags = f.flags, !.from = "LBRACK"])
          [] p.tok = "LPAREN" ->
                IF f.t = Nil
                THEN ReturnParse(mc, Nil, FALSE, newError(p, "no function return type"))
                ELSE StepLParen(mc, f, expect2(p, "MUL", "XOR"))
          [] p.tok = "RPAREN" ->
                ReturnParse(mc, IF f.t = Nil THEN Void ELSE f.t, f.isConst, NoErr)
          [] p.tok \in {"COMMA", "EOF"} ->
                ReturnParse(mc, f.t, f.isConst, IF f.t = Nil THEN ErrUnexpectedEOF ELSE NoErr)
          [] OTHER -> ExitNow(mc, f.t, f.isConst)

\* `if flags != 0 { p.next(); ... goto retry }`, after p.next(); r is the
\* value of lookupType("int", flags)
StepPending(mc, f, r) ==
    IF mc.p.tok = "IDENT"
    THEN SetTop(mc, [f EXCEPT !.pc = "ident"])
    ELSE IF f.t # Nil
         THEN ReturnParse(mc, Nil, FALSE, newError(mc.p, "illegal syntax: multiple types?"))
         ELSE IF r.err = Exit
              THEN ExitNow(mc, r.t, f.isConst)
              ELSE SetTop([mc EXCEPT !.retries = @ + 1],
                          [f EXCEPT !.t = r.t, !.q = 0, !.pc = "retry"])

\* `if flags != 0 { ... }` behind switch p.lit
StepIdentEnd(mc, f) ==
    IF f.q # 0
    THEN StepPending(Read(mc), f, lookupType("int", f.q))
    ELSE SetTop(mc, [f EXCEPT !.pc = "loop"])

\* default: of switch p.lit; r is the value of lookupType(p.lit, flags)
StepDefault(mc, f, r) ==
    IF f.t # Nil
    THEN ReturnParse(mc, Nil, FALSE, newError(mc.p, "illegal syntax: multiple types?"))
    ELSE IF r.err = Exit
         THEN ExitNow(mc, r.t, f.isConst)
         ELSE IF r.err # NoErr
              THEN ReturnParse(mc, r.t, f.isConst, r.err)
              ELSE StepIdentEnd(mc, [f EXCEPT !.t = r.t, !.q = 0])

\* case "struct", "union", after p.next()
StepStruct(mc, f) ==
    IF mc.p.tok # "IDENT"
    THEN ExitNow(mc, f.t, f.isConst)
    ELSE StepDefault(mc, f, lookupType(mc.p.lit, f.q))

\* ident: switch p.lit
StepIdent(mc) ==
    LET f == Top(mc)
        l == mc.p.lit
    IN  CASE l \in Keywords ->
                StepIdentEnd(mc, [f EXCEPT !.isConst = @ \/ l = "const", !.q = addQualifier(l, @)])
          [] l \in {"struct", "union"} -> StepStruct(Read(mc), f)
          [] OTHER -> StepDefault(mc, f, lookupType(l, f.q))

\* the `if isRetFn ... else if` that closes case token.LPAREN; f.t is the
\* type that parseFunc or parseArrays has built
StepCompose(mc, f) ==
    IF f.isRetFn /\ getRetType(f.flags)
    THEN ReturnAsEOF(mc, f.t, f.isConst)
    ELSE SetTop(mc, [f EXCEPT !.t = composeRet(f.t, f.isRetFn, f.args), !.pc = "loop"])

\* nextTok: p.next() and its switch
StepNextTok(mc) ==
    LET f == Top(mc)
        mc1 == Read(mc)
    IN  CASE mc1.p.tok = "RPAREN" -> SetTop(mc1, [f EXCEPT !.pc = "declarator"])
          [] mc1.p.tok = "LPAREN" /\ ~f.isRetFn ->
                Push(SetTop(mc1, [f EXCEPT !.pc = "innerArgs"]), ArgsFrame)
          [] mc1.p.tok = "IDENT" /\ mc1.p.lit \in {"_Nullable", "_Nonnull"} -> mc1
          [] OTHER -> ReturnParse(mc1, Nil, FALSE, newError(mc1.p, "expect )"))

\* the p.next() and switch behind the closing `)`
StepDeclarator(mc) ==
    LET f == Top(mc)
        mc1 == Read(mc)
    IN  CASE mc1.p.tok = "LPAREN" ->
                Push(SetTop(mc1, [f EXCEPT !.pc = "funcArgs"]), ArgsFrame)
          [] mc1.p.tok = "LBRACK" ->
                SetTop(mc1, [f EXCEPT !.pc = "parseArrays", !.aflags = 0, !.from = "declarator"])
          [] OTHER ->
                ReturnParse(mc1, Nil, FALSE, newError(mc1.p, "unexpected " \o TokString(mc1.p.tok)))

\* the calls of p.next() that parseArray(t, inFlags) makes
parseArrayReads(p, t) ==
    IF t = Nil THEN 0
    ELSE IF next(p).tok = "INT" /\ ParseInt(next(p).lit).err = "" THEN 2 ELSE 1

\* StepArraysNext without the exit at the end of input
StepArraysNextNoEOF(mc, f) == SetTop(mc, f)

\* parseArrays behind its call of parseArray: p.next(), and the loop goes
\* on unless the token is EOF
StepArraysNext(mc, f) ==
    IF mc.p.tok = "EOF"
    THEN IF f.from = "LBRACK" THEN SetTop(mc, [f EXCEPT !.pc = "loop"]) ELSE StepCompose(mc, f)
    ELSE SetTop(mc, f)

\* one turn of the for loop of parseArrays; r is the value of parseArray
StepArrays(mc, f, r) ==
    IF r.err # NoErr
    THEN ReturnParse([mc EXCEPT !.p = r.p], r.t, f.isConst, r.err)
    ELSE StepArraysNext(Read([mc EXCEPT !.p = r.p]), [f EXCEPT !.t = r.t])

StepParseArrays(mc) ==
    StepArrays([mc EXCEPT !.reads = @ + parseArrayReads(mc.p, Top(mc).t)],
               Top(mc), parseArray(mc.p, Top(mc).t, Top(mc).aflags))

\* the head of the for loop of parseArgs: the call p.parse(FlagIsParam)
StepArgsCall(mc) ==
    Push(SetTop(mc, [Top(mc) EXCEPT !.pc = "wait"]), ParseFrame(FlagIsParam))

\* parseArgs behind its call of parse, whose results are mc.val
StepArgsWait(mc) ==
    LET a == Top(mc)
        r == mc.val
        args == IF NotVoid(r.t) THEN Append(a.args, r.t) ELSE a.args
    IN  IF r.err # NoErr
        THEN ReturnArgs(mc, <<>>, r.err)
        ELSE IF mc.p.tok = "COMMA"
             THEN SetTop(mc, [a EXCEPT !.args = args, !.pc = "call"])
             ELSE IF mc.p.tok # "RPAREN"
                  THEN ReturnArgs(mc, <<>>, newError(mc.p, "expect )"))
                  ELSE ReturnArgs(mc, args, NoErr)

\* parse behind the call of parseArgs it made at nextTok (innerArgs) or
\* through parseFunc (funcArgs); the results of parseArgs are mc.val
StepAfterArgs(mc) ==
    LET f == Top(mc)
        r == mc.val
    IN  IF f.pc = "innerArgs"
        THEN IF r.err # NoErr
             THEN ReturnParse(mc, f.t, f.isConst, r.err)
             ELSE SetTop(mc, [f EXCEPT !.args = r.args, !.isRetFn = TRUE, !.pc = "nextTok"])
        ELSE IF r.err # NoErr
             THEN ReturnParse(mc, Nil, f.isConst, r.err)
             ELSE StepCompose(mc, [f EXCEPT !.t = NewSignature(r.args, IF NotVoid(f.t) THEN <<f.t>> ELSE <<>>)])

\* ParseType behind its call of parse
FinishRun(mc) == afterParse(Return(mc.p, mc.val.t, mc.val.isConst, mc.val.err))

RunLen == 3

RunDecl == 9

\* the qualTypes run step by step: the short ones, and the longer ones
\* with the parenthesized declarators of at most RunDecl tokens
RunInputs ==
    SeqsUpTo({T(a) : a \in Alphabet}, RunLen)
        \cup (LongInputs \ DeclInputs) \cup {d \in DeclInputs : Len(d) <= RunDecl}

InitRun ==
    /\ op = "ParseTypeRun"
    /\ pc = "run"
    /\ lit = ""
    /\ qflags = 0
    /\ lret = NoRet
    /\ ret = NoRet
    /\ qualType \in RunInputs
    /\ inFlags \in 0..3
    /\ mach = StartRun(qualType, inFlags)

\* the top frame is one of fn that stands at one of the labels pcs
At(fn, pcs) ==
    /\ pc = "run"
    /\ Len(mach.stack) > 0
    /\ Top(mach).fn = fn
    /\ Top(mach).pc \in pcs

Step(mc) ==
    /\ mach' = mc
    /\ UNCHANGED <<op, pc, lit, qflags, lret, qualType, inFlags, ret>>

Loop == At("parse", {"loop"}) /\ Step(StepLoop(mach))

Retry == At("parse", {"retry"}) /\ Step(StepRetry(mach))

Ident == At("parse", {"ident"}) /\ Step(StepIdent(mach))

NextTok == At("parse", {"nextTok"}) /\ Step(StepNextTok(mach))

Declarator == At("parse", {"declarator"}) /\ Step(StepDeclarator(mach))

ParseArrays == At("parse", {"parseArrays"}) /\ Step(StepParseArrays(mach))

AfterArgs == At("parse", {"innerArgs", "funcArgs"}) /\ Step(StepAfterArgs(mach))

ArgsCall == At("parseArgs", {"call"}) /\ Step(StepArgsCall(mach))

ArgsWait == At("parseArgs", {"wait"}) /\ Step(StepArgsWait(mach))

Finish ==
    /\ pc = "run"
    /\ Len(mach.stack) = 0
    /\ ret' = FinishRun(mach)
    /\ pc' = "done"
    /\ UNCHANGED <<op, lit, qflags, lret, qualType, inFlags, mach>>

NextRun ==
    \/ Loop
    \/ Retry
    \/ Ident
    \/ NextTok
    \/ Declarator
    \/ ParseArrays
    \/ AfterArgs
    \/ ArgsCall
    \/ ArgsWait
    \/ Finish

\* the call runs on one goroutine, which goes on until it returns
SpecRun == InitRun /\ [][NextRun]_vars /\ WF_vars(NextRun)

-----------------------------------------------------------------------------
(* Properties.                                                             *)

Done(o) == pc = "done" /\ op = o

Returned == Done("ParseType") /\ ret.outcome = "return"

Succeeded == Returned /\ ret.err = NoErr

\* the documented table: keyword, flag set, type
PrimitiveTable ==
    { <<"int", flagShort, "int16">>,
      <<"int", flagLong, "long">>,
      <<"int", flagLong + flagLongLong, "int64">>,
      <<"int", flagUnsigned, "uint32">>,
      <<"int", flagShort + flagUnsigned, "uint16">>,
      <<"int", flagLong + flagUnsigned, "ulong">>,
      <<"int", flagLong + flagLongLong + flagUnsigned, "uint64">>,
      <<"char", flagUnsigned, "uint8">>,
      <<"char", flagSigned, "int8">>,
      <<"double", flagLong, "long double">>,
      <<"__int128", flagSigned, "int128">>,
      <<"__int128", flagUnsigned, "uint128">>,
      <<"int", 0, "int32">> }

\* C1: for every (keyword, flag set) pair of the primitive table, and for
\* float/double with the complex flag, lookupType returns exactly the
\* documented type, with no error and without consulting the scope.
C1_PrimitiveTable ==
    Done("lookupType") =>
        /\ \A e \in PrimitiveTable :
              (lit = e[1] /\ qflags = e[2]) => lret = LookupRet(Typ(e[3]), NoErr, FALSE)
        /\ (lit = "float" /\ HasFlag(qflags, flagComplex))
              => lret = LookupRet(Typ("complex64"), NoErr, FALSE)
        /\ (lit = "double" /\ HasFlag(qflags, flagComplex))
              => lret = LookupRet(Typ("complex128"), NoErr, FALSE)

C1_Witness ==
    /\ Done("lookupType")
    /\ lit = "char" /\ qflags = flagSigned
    /\ lret.t = Typ("int8") /\ ~lret.scoped

QualToks == {T(k) : k \in QualKw}

\* the qualifier keywords that open q
QualPrefix(q) ==
    LET n == CHOOSE n \in 0..Len(q) :
                /\ \A i \in 1..n : q[i] \in QualToks
                /\ (n < Len(q) => q[n + 1] \notin QualToks)
    IN  SubSeq(q, 1, n)

\* q is qualifier keywords followed by a base keyword or by nothing
IsQualInput(q) ==
    LET n == Len(QualPrefix(q)) IN
    \/ n = Len(q)
    \/ n + 1 = Len(q) /\ q[Len(q)] \in {T(k) : k \in BaseKw}

\* the orderings of the qualifier keywords pre
Orderings(pre) ==
    {s \in [1..Len(pre) -> QualToks] :
        \A k \in QualToks :
            Cardinality({i \in 1..Len(pre) : s[i] = k}) = Cardinality({i \in 1..Len(pre) : pre[i] = k})}

\* the two calls end alike: the same type, or the same kind of failure
SameOutcome(r1, r2) ==
    r1.outcome = r2.outcome /\ r1.t = r2.t /\ r1.err.kind = r2.err.kind

\* C2: two qualTypes made of the same qualifier keywords in different
\* orders, followed by the same base keyword or by nothing, have the same
\* outcome: the same type, or both fail alike.
C2_QualifierOrder ==
    (Done("ParseType") /\ IsQualInput(qualType)) =>
        LET pre == QualPrefix(qualType)
            base == SubSeq(qualType, Len(pre) + 1, Len(qualType))
        IN  \A s \in Orderings(pre) : SameOutcome(ParseType(s \o base, inFlags), ret)

C2_Witness ==
    /\ Succeeded
    /\ qualType = Toks(<<"long", "unsigned", "long", "int">>)
    /\ ret.t = Typ("uint64")
    /\ ParseType(Toks(<<"unsigned", "long", "long", "int">>), inFlags).t = Typ("uint64")

C3_Input ==
    Toks(<<"int", "(", "*", ")", "(", "void", "*", ",", "int", ",", "char", "*", "*", ",", "char", "*", "*", ")">>)

C3_Function ==
    NewSignature(<<UnsafePointer, Typ("int32"),
                   NewPointer(NewPointer(scope["char"])), NewPointer(NewPointer(scope["char"]))>>,
                 <<Typ("int32")>>)

\* C3 as stated: `int (*)(void *, int, char **, char **)` parses to a
\* Pointer whose pointee is the Function.
C3_Original ==
    (Done("ParseType") /\ qualType = C3_Input /\ inFlags = 0) =>
        ret.outcome = "return" /\ ret.err = NoErr /\ ret.t = NewPointer(C3_Function)

\* C3, amended: `int (*)(void *, int, char **, char **)` parses to the
\* Function itself, params [unsafe pointer, int32, Pointer(Pointer(char)),
\* Pointer(Pointer(char))] and result int32, with no Pointer around it.
C3_FunctionPointer ==
    (Done("ParseType") /\ qualType = C3_Input /\ inFlags = 0) =>
        ret.outcome = "return" /\ ret.err = NoErr /\ ret.t = C3_Function

C3_Witness ==
    Succeeded /\ qualType = C3_Input /\ inFlags = 0 /\ ret.t.kind = "Signature"

C4_Input ==
    Toks(<<"void", "(", "*", "(", "int", ",", "void", "(", "*", ")", "(", "int", ")", ")", ")", "(", "int", ")">>)

\* Function(params=[int32], result=None)
C4_Handler == NewSignature(<<Typ("int32")>>, <<>>)

\* C4 as stated: the outer Function has params [int32] and its result is
\* Pointer(Function(params=[int32, Pointer(Function([int32]))])).
C4_Original ==
    (Done("ParseType") /\ qualType = C4_Input /\ inFlags = 0) =>
        /\ ret.outcome = "return" /\ ret.err = NoErr
        /\ ret.t = NewSignature(<<Typ("int32")>>,
                                <<NewPointer(NewSignature(<<Typ("int32"), NewPointer(C4_Handler)>>, <<>>))>>)

\* C4, amended: `void (*(int, void (*)(int)))(int)` parses to the outer
\* Function with params [int32, Function([int32], None)] whose result is
\* Function([int32], None); function pointers carry no Pointer.
C4_NestedReturn ==
    (Done("ParseType") /\ qualType = C4_Input /\ inFlags = 0) =>
        /\ ret.outcome = "return" /\ ret.err = NoErr
        /\ ret.t = NewSignature(<<Typ("int32"), C4_Handler>>, <<C4_Handler>>)

C4_Witness ==
    /\ Succeeded /\ qualType = C4_Input /\ inFlags = 0
    /\ ret.t.kind = "Signature" /\ Len(ret.t.params) = 2

\* C5 as stated: a failing ParseType call returns the nil type.
C5_NoPartialResult ==
    (Returned /\ ret.err # NoErr) => ret.t = Nil

\* the error is a ParseTypeError that holds the qualType and the position
\* of the token the parser stopped at
Positioned(r) ==
    /\ r.err.kind = "ParseTypeError"
    /\ r.err.QualType = qualType
    /\ r.err.Pos = r.p.pos
    /\ r.err.Pos \in 1..(Len(qualType) + 1)

\* C6 as stated: every error ParseType returns holds the qualType and the
\* position of the failing token.
C6_Original ==
    (Returned /\ ret.err # NoErr) => Positioned(ret)

\* C6, amended: every error ParseType returns is either a ParseTypeError
\* holding the qualType and the position of the token the parser stopped
\* at, or the bare ErrNotFound, returned at an identifier that the scope
\* does not know, or the bare io.ErrUnexpectedEOF, returned at a `,` or at
\* the end of input met before any type was resolved; the two bare errors
\* carry no position.
C6_ErrorContext ==
    (Returned /\ ret.err # NoErr) =>
        \/ Positioned(ret)
        \/ /\ ret.err = ErrNotFound
           /\ ret.p.tok = "IDENT" /\ ret.p.lit \notin DOMAIN scope /\ ret.p.lit # "int"
        \/ /\ ret.err = ErrUnexpectedEOF
           /\ ret.p.tok \in {"COMMA", "EOF"}

C6_Witness ==
    /\ Returned /\ qualType = Toks(<<"int", "(", "*", ")", "(", "Bar", ")">>)
    /\ ret.err = ErrNotFound /\ ret.p.pos = 6

C7_Inputs ==
    { Toks(<<"short", "double">>), Toks(<<"short", "long", "int">>),
      Toks(<<"unsigned", "float">>), Toks(<<"_Complex", "int">>) }

\* C7 as stated: a keyword/qualifier combination outside the primitive
\* table makes ParseType return the InvalidType error; the process goes on.
C7_InvalidTypeReturned ==
    (Done("ParseType") /\ qualType \in C7_Inputs) =>
        ret.outcome = "return" /\ ret.err = ErrInvalidType

\* the scanner has delivered every token and reported the end of input
Exhausted(p) == p.idx = Len(p.src) /\ p.pos = Len(p.src) + 1

\* C8 as stated: for every flag value, a ParseType call that returns
\* without error has consumed the whole token stream.
C8_Original ==
    Succeeded => Exhausted(ret.p)

\* r is the value of the top-level parse: a token other than EOF left
\* current without error makes the call fail
TrailingTokenFails(r) ==
    (r.err = NoErr /\ r.p.tok # "EOF") =>
        ret.err = newError(r.p, "unexpect token " \o TokString(r.p.tok))

\* C8, amended: with FlagGetRetType clear, a ParseType call that returns
\* without error has consumed the whole token stream; and for every flag
\* value a token other than EOF left current by the top-level parse makes
\* ParseType fail with "unexpect token" (with FlagGetRetType set, parse
\* itself sets the current token to EOF where it stops, with tokens left).
C8_Consumed ==
    /\ (Succeeded /\ ~getRetType(inFlags)) => (ret.p.tok = "EOF" /\ Exhausted(ret.p))
    /\ Returned => TrailingTokenFails(parse(NewParser(qualType), inFlags))

C8_Witness ==
    /\ Returned /\ qualType = Toks(<<"int", "*", ")">>) /\ inFlags = 0
    /\ ret.err.kind = "ParseTypeError" /\ ret.err.ErrMsg = "unexpect token )"

RECURSIVE WellFormed(_)
\* no Pointer, Array or Function inside t stands over the nil type
WellFormed(t) ==
    CASE t.kind \in {"Pointer", "Array"} -> t.elem # Nil /\ WellFormed(t.elem)
      [] t.kind = "Signature" ->
            /\ \A i \in 1..Len(t.params) : t.params[i] # Nil /\ WellFormed(t.params[i])
            /\ \A i \in 1..Len(t.results) : t.results[i] # Nil /\ WellFormed(t.results[i])
      [] OTHER -> TRUE

NilMessage(tok) ==
    CASE tok = "MUL" -> "pointer to nil"
      [] tok = "LBRACK" -> "array to nil"
      [] tok = "LPAREN" -> "no function return type"

\* C9: no type that ParseType returns has a Pointer, Array or Function
\* over the nil type, and a `*`, `[` or `(` met where no base type has
\* been resolved (at the start, after ignored qualifiers, at the start of
\* an argument) ends the call with the error "pointer to nil", "array to
\* nil" or "no function return type" at that token.
C9_NonNilBase ==
    /\ Returned => WellFormed(ret.t)
    /\ Done("ParseType") =>
          \A pre \in NilPrefixes :
              LET n == Len(pre) IN
              ( /\ Len(qualType) > n
                /\ SubSeq(qualType, 1, n) = Toks(pre)
                /\ qualType[n + 1].tok \in {"MUL", "LBRACK", "LPAREN"} )
              => /\ ret.outcome = "return"
                 /\ ret.err.kind = "ParseTypeError"
                 /\ ret.err.ErrMsg = NilMessage(qualType[n + 1].tok)
                 /\ ret.err.Pos = n + 1

C9_Witness ==
    /\ Returned /\ qualType = Toks(<<"*", "int">>)
    /\ ret.t = Nil /\ ret.err.kind = "ParseTypeError" /\ ret.err.ErrMsg = "pointer to nil"

RECURSIVE ContainsArray(_)
ContainsArray(t) ==
    CASE t.kind = "Array" -> TRUE
      [] t.kind = "Pointer" -> ContainsArray(t.elem)
      [] t.kind = "Signature" ->
            \/ \E i \in 1..Len(t.params) : ContainsArray(t.params[i])
            \/ \E i \in 1..Len(t.results) : ContainsArray(t.results[i])
      [] OTHER -> FALSE

\* C10 as stated: with FlagIsParam every bracket group yields a Pointer
\* instead of an Array, so no type returned with FlagIsParam has an Array.
C10_Original ==
    (Succeeded /\ isParam(inFlags)) => ~ContainsArray(ret.t)

\* Pointer(T), the unsafe pointer for Void
PointerTo(t) == IF t = Void THEN UnsafePointer ELSE NewPointer(t)

RECURSIVE Decayed(_, _)
Decayed(t, k) == IF k = 0 THEN t ELSE Decayed(PointerTo(t), k - 1)

Brackets(q) == Cardinality({i \in 1..Len(q) : q[i].tok = "LBRACK"})

BaseOf(q) == SubSeq(q, 1, (CHOOSE i \in 1..Len(q) : q[i].tok = "LBRACK" /\ \A j \in 1..(i - 1) : q[j].tok # "LBRACK") - 1)

\* C10, amended: with FlagIsParam a bracket group that follows the type T
\* directly yields Pointer(T) (the unsafe pointer for Void) instead of an
\* Array, so `int [10]` gives Pointer(int32), and with FlagIsParam set and
\* FlagGetRetType clear no returned type has Array as its outermost
\* constructor; the brackets behind a parenthesized `(*)` stay an Array
\* (`int (*)[3]` gives Pointer(Array(int32, 3)) with the flag too).  With
\* both flags clear `int [10]` gives Array(int32, 10), and `[]` the
\* length -1.
C10_ParamDecay ==
    /\ (Done("ParseType") /\ isParam(inFlags) /\ qualType \in ArrayInputs /\ Brackets(qualType) > 0) =>
          /\ ret.outcome = "return" /\ ret.err = NoErr
          /\ ret.t = Decayed(ParseType(BaseOf(qualType), inFlags).t, Brackets(qualType))
    /\ (Succeeded /\ isParam(inFlags) /\ ~getRetType(inFlags)) => ret.t.kind # "Array"
    /\ (Done("ParseType") /\ isParam(inFlags) /\ qualType = Toks(<<"int", "[", "10", "]">>)) =>
          ret.t = NewPointer(Typ("int32"))
    /\ (Done("ParseType") /\ isParam(inFlags) /\ qualType = Toks(<<"int", "(", "*", ")", "[", "3", "]">>)) =>
          ret.t = NewPointer(NewArray(Typ("int32"), 3))
    /\ (Done("ParseType") /\ inFlags = 0 /\ qualType = Toks(<<"int", "[", "10", "]">>)) =>
          ret.t = NewArray(Typ("int32"), 10)
    /\ (Done("ParseType") /\ inFlags = 0 /\ qualType = Toks(<<"int", "[", "]">>)) =>
          ret.t = NewArray(Typ("int32"), -1)

C10_Witness ==
    /\ Succeeded /\ inFlags = FlagIsParam /\ qualType = Toks(<<"int", "[", "10", "]">>)
    /\ ret.t = NewPointer(Typ("int32"))

\* the number of parentheses open before the i-th token of q
Depth(q, i) ==
    Cardinality({j \in 1..(i - 1) : q[j].tok = "LPAREN"})
        - Cardinality({j \in 1..(i - 1) : q[j].tok = "RPAREN"})

\* a `const` stands in q outside every pair of parentheses
TopLevelConst(q) == \E i \in 1..Len(q) : q[i] = T("const") /\ Depth(q, i) = 0

\* C11: a ParseType call without FlagGetRetType that succeeds returns
\* isConst true exactly when a `const` stands in the top-level declaration,
\* before or after the base type or a `*`; a `const` inside an argument
\* list does not set it.
C11_IsConst ==
    (Succeeded /\ ~getRetType(inFlags)) => (ret.isConst <=> TopLevelConst(qualType))

C11_Witness ==
    /\ Succeeded /\ inFlags = 0
    /\ qualType = Toks(<<"int", "(", "*", ")", "(", "char", "*", ")", "const">>)
    /\ ret.isConst
    /\ ParseType(Toks(<<"int", "(", "*", ")", "(", "const", "char", "*", ")">>), 0).err = NoErr
    /\ ~ParseType(Toks(<<"int", "(", "*", ")", "(", "const", "char", "*", ")">>), 0).isConst

C12_Input == Toks(<<"int", "(", "int", ",", "char", "*", ")">>)

\* C12 as stated: `int (int, char *)` parses to Function([int32,
\* Pointer(char)], result int32).
C12_Original ==
    (Done("ParseType") /\ qualType = C12_Input /\ inFlags = 0) =>
        /\ ret.outcome = "return" /\ ret.err = NoErr
        /\ ret.t = NewSignature(<<Typ("int32"), NewPointer(scope["char"])>>, <<Typ("int32")>>)

\* the types of the arguments as, each parsed on its own with FlagIsParam,
\* Void left out
RECURSIVE ArgTypesOf(_)
ArgTypesOf(as) ==
    IF Len(as) = 0 THEN <<>>
    ELSE LET t == ParseType(Toks(as[1]), FlagIsParam).t IN
         (IF NotVoid(t) THEN <<t>> ELSE <<>>) \o ArgTypesOf(Tail(as))

\* no bracket group in the arguments as
NoBrackets(as) == \A i \in 1..Len(as) : \A j \in 1..Len(as[i]) : as[i][j] # "["

\* the result tuple of a function that returns the type written b
ResultOf(b) ==
    LET t == ParseType(Toks(b), 0).t IN IF NotVoid(t) THEN <<t>> ELSE <<>>

\* `T (*)(args)` for every base T and every list of at most MaxArgs
\* arguments without brackets: the tokens, and Function(args, result T)
FunctionPointers ==
    {<<Toks(b \o <<"(", "*", ")">> \o Paren(JoinArgs(as))),
       NewSignature(ArgTypesOf(as), ResultOf(b))>> :
        b \in Bases, as \in {as \in SeqsUpTo(ArgTypes, MaxArgs) : NoBrackets(as)}}

FunctionPointerInputs == {c[1] : c \in FunctionPointers}

\* the tokens of the base types
BaseTypes == {Toks(b) : b \in Bases}

\* C12, amended: a `(` that directly follows a resolved type T must be
\* followed by `*` or `^`; a direct argument list as in `int (int, char *)`
\* is not parsed: with FlagGetRetType clear the call fails with "expect *,
\* got <token>" at the token behind the `(`.  An argument list is parsed
\* behind a `(*)` declarator: `T (*)(args)`, args without brackets, gives
\* Function(args, result T), each argument having the type it has when
\* parsed with FlagIsParam, the list closed by `)`.
C12_ArgList ==
    /\ (Done("ParseType") /\ qualType \in FunctionPointerInputs) =>
          /\ ret.outcome = "return" /\ ret.err = NoErr
          /\ <<qualType, ret.t>> \in FunctionPointers
    /\ (Done("ParseType") /\ ~getRetType(inFlags)) =>
          \A c \in BaseTypes :
              LET n == Len(c) IN
              ( /\ Len(qualType) > n
                /\ qualType[n + 1].tok = "LPAREN"
                /\ SubSeq(qualType, 1, n) = c
                /\ (Len(qualType) > n + 1 => qualType[n + 2].tok \notin {"MUL", "XOR"}) )
              => /\ ret.outcome = "return"
                 /\ ret.err = newError(ret.p, "expect *, got " \o TokString(ret.p.tok))
                 /\ ret.p.pos = n + 2

C12_Witness ==
    /\ Returned /\ qualType = C12_Input /\ inFlags = 0
    /\ ret.err.kind = "ParseTypeError" /\ ret.err.ErrMsg = "expect *, got IDENT"
    /\ ret.err.Pos = 3

C13_Inputs ==
    { Toks(<<"void", "(", "*", ")", "(", "int", "[", "3", "]", ")">>),
      Toks(<<"void", "(", "*", ")", "(", "int", "[", "3", "]", ",", "int", ")">>),
      Toks(<<"int", "[", "3", "]", "*">>) }

\* C13 as stated: a run of bracket groups ends at the first token behind a
\* `]` that is not `[`, which is left to the enclosing parse: an array
\* followed by `)`, `,` or `*` parses without error; and `T [a][b]` gives
\* Array(Array(T, a), b).
C13_BracketRun ==
    /\ (Done("ParseType") /\ qualType \in C13_Inputs /\ inFlags = 0) =>
          ret.outcome = "return" /\ ret.err = NoErr
    /\ (Done("ParseType") /\ qualType = Toks(<<"int", "[", "3", "]", "[", "10", "]">>) /\ inFlags = 0) =>
          ret.t = NewArray(NewArray(Typ("int32"), 3), 10)

\* `R (*(A1))(A2)` for every base R, every A1 of at most MaxArgs arguments
\* and every A2 of at most one, none with brackets: the tokens, and
\* Function(params A1, result Function(params A2, result R))
ReturnCompositions ==
    {<<Toks(b \o Paren(<<"*">> \o Paren(JoinArgs(as1))) \o Paren(JoinArgs(as2))),
       NewSignature(ArgTypesOf(as1), <<NewSignature(ArgTypesOf(as2), ResultOf(b))>>)>> :
        b \in Bases,
        as1 \in {as \in SeqsUpTo(ArgTypes, MaxArgs) : NoBrackets(as)},
        as2 \in {as \in SeqsUpTo(ArgTypes, 1) : NoBrackets(as)}}

ReturnCompositionInputs == {c[1] : c \in ReturnCompositions}

\* C14: with FlagGetRetType clear, `R (*(A1))(A2)` parses to
\* Function(params A1, result Function(params A2, result R)): the list
\* inside the parentheses is the parameter list of the outer function, and
\* the function built from the trailing list and R is what it returns
\* (A1 and A2 without bracket groups).
C14_ReturnComposition ==
    (Done("ParseType") /\ ~getRetType(inFlags) /\ qualType \in ReturnCompositionInputs) =>
        /\ ret.outcome = "return" /\ ret.err = NoErr
        /\ <<qualType, ret.t>> \in ReturnCompositions

C14_Witness ==
    /\ Succeeded /\ inFlags = 0
    /\ qualType = Toks(<<"int", "(", "*", "(", "char", "*", ")", ")", "(", "int", ")">>)
    /\ ret.t = NewSignature(<<NewPointer(scope["char"])>>,
                            <<NewSignature(<<Typ("int32")>>, <<Typ("int32")>>)>>)

C15_Input ==
    Toks(<<"void", "(", "*", "(", "*", "(", "int", ")", ")", "(", "int", ")", ")", "(", "int", ")">>)

\* C15 as stated: the declarator nested two levels,
\* `void (*(*(int))(int))(int)`, parses without error to a Function whose
\* result is a Function whose result is a Function.
C15_DeepNesting ==
    (Done("ParseType") /\ qualType = C15_Input /\ inFlags = 0) =>
        /\ ret.outcome = "return" /\ ret.err = NoErr
        /\ ret.t.kind = "Signature" /\ Len(ret.t.results) = 1
        /\ ret.t.results[1].kind = "Signature" /\ Len(ret.t.results[1].results) = 1
        /\ ret.t.results[1].results[1].kind = "Signature"

\* the tokens of a resolved type: a base type, or a pointer to it
ResolvedTypes == {Toks(b \o st) : b \in Bases, st \in {<<>>, <<"*">>}}

\* C16: when the `(` behind a resolved type T (a base type, or a pointer
\* to it) is followed by a token other than `*` and `^`, then with
\* FlagGetRetType set the call stops there: it returns T and the isConst
\* of T with a nil error, the current token reported as EOF although the
\* parser stands at the token behind the `(`; with the flag clear the same
\* input returns an error.
C16_RetTypeStop ==
    Done("ParseType") =>
        \A c \in ResolvedTypes :
            LET n == Len(c)
                T0 == ParseType(c, 0)
            IN  ( /\ Len(qualType) > n
                  /\ qualType[n + 1].tok = "LPAREN"
                  /\ SubSeq(qualType, 1, n) = c
                  /\ (Len(qualType) > n + 1 => qualType[n + 2].tok \notin {"MUL", "XOR"}) )
                => /\ ret.outcome = "return"
                   /\ getRetType(inFlags) =>
                         /\ ret.err = NoErr
                         /\ ret.t = T0.t /\ ret.isConst = T0.isConst
                         /\ ret.p.tok = "EOF" /\ ret.p.pos = n + 2
                   /\ ~getRetType(inFlags) => ret.err # NoErr

C16_Witness ==
    /\ Succeeded /\ inFlags = FlagGetRetType /\ qualType = C12_Input
    /\ ret.t = Typ("int32") /\ ret.p.tok = "EOF" /\ ret.p.idx = 3
    /\ ParseType(C12_Input, 0).err # NoErr

RECURSIVE NoVoidParam(_)
\* no Function inside t has a Void parameter
NoVoidParam(t) ==
    CASE t.kind \in {"Pointer", "Array"} -> NoVoidParam(t.elem)
      [] t.kind = "Signature" ->
            /\ \A i \in 1..Len(t.params) : t.params[i] # Void /\ NoVoidParam(t.params[i])
            /\ \A i \in 1..Len(t.results) : NoVoidParam(t.results[i])
      [] OTHER -> TRUE

\* `T (*)(void)` and `T (*)()` for every base T: the tokens, and the
\* Function with no parameter and the result T
NoParameters ==
    {<<Toks(b \o <<"(", "*", ")">> \o Paren(a)), NewSignature(<<>>, ResultOf(b))>> :
        b \in Bases, a \in {<<"void">>, <<>>}}

NoParameterInputs == {c[1] : c \in NoParameters}

\* C17: no Function inside a type that ParseType returns has a Void
\* parameter, and `T (*)(void)` and `T (*)()` both give the Function with
\* the empty parameter list.
C17_NoVoidParam ==
    /\ Returned => NoVoidParam(ret.t)
    /\ (Done("ParseType") /\ qualType \in NoParameterInputs) =>
          /\ ret.outcome = "return" /\ ret.err = NoErr
          /\ <<qualType, ret.t>> \in NoParameters

C17_Witness ==
    /\ Succeeded /\ inFlags = 0
    /\ qualType = Toks(<<"int", "(", "*", ")", "(", "void", ",", "int", ")">>)
    /\ ret.t = NewSignature(<<Typ("int32")>>, <<Typ("int32")>>)
    /\ ParseType(Toks(<<"int", "(", "*", ")", "(", "void", ")">>), 0).t
            = ParseType(Toks(<<"int", "(", "*", ")", "(", ")">>), 0).t

\* the first token of q behind its first n tokens that is no keyword of
\* the ident switch; Len(q) + 1, the end of input, if there is none
FirstNonKeyword(q, n) ==
    CHOOSE k \in (n + 1)..(Len(q) + 1) :
        /\ \A j \in (n + 1)..(k - 1) : q[j].tok = "IDENT" /\ q[j].lit \in Keywords
        /\ k <= Len(q) => ~(q[k].tok = "IDENT" /\ q[k].lit \in Keywords)

\* where the second base type of q is found out: at the token behind
\* `struct`, else at the first token that is no keyword
SecondTypePos(q, n) ==
    LET k == FirstNonKeyword(q, n) IN
    IF k <= Len(q) /\ q[k] = T("struct") THEN k + 1 ELSE k

\* a resolved base type, what may follow it, and a second base type: the
\* tokens, and how many of them stand before the second type
SecondTypeCases ==
    {<<Toks(b \o m \o x), Len(b) + Len(m)>> :
        b \in Resolved \ {<<"unsigned">>}, m \in Between \cup {<<>>}, x \in Second}

\* C18: once a parse call has resolved its base type (b, then pointers or
\* const), a further base-type identifier, and qualifier keywords left
\* pending when a token that is no identifier is reached, make the call
\* fail with the error "illegal syntax: multiple types?" at that token
\* and return no type; and a resolution resets the qualifier flags, so that
\* `unsigned int`, `unsigned int *` and `unsigned * const` resolve once and
\* succeed.
C18_MultipleTypes ==
    /\ Done("ParseType") =>
          \A k \in 1..Len(qualType) : \A n \in 1..(k - 1) :
              <<SubSeq(qualType, 1, k), n>> \in SecondTypeCases
              => /\ ret.outcome = "return"
                 /\ ret.t = Nil /\ ~ret.isConst
                 /\ ret.err = newError(ret.p, "illegal syntax: multiple types?")
                 /\ ret.p.pos = SecondTypePos(qualType, n)
    /\ (Done("ParseType") /\ qualType = Toks(<<"unsigned", "int">>)) =>
          ret.err = NoErr /\ ret.t = Typ("uint32")
    /\ (Done("ParseType") /\ qualType = Toks(<<"unsigned", "int", "*">>)) =>
          ret.err = NoErr /\ ret.t = NewPointer(Typ("uint32"))
    /\ (Done("ParseType") /\ qualType = Toks(<<"unsigned", "*", "const">>)) =>
          ret.err = NoErr /\ ret.t = NewPointer(Typ("uint32")) /\ ret.isConst

C18_Witness ==
    /\ Returned /\ inFlags = 0 /\ qualType = Toks(<<"int", "*", "unsigned", "*">>)
    /\ ret.err.kind = "ParseTypeError" /\ ret.err.ErrMsg = "illegal syntax: multiple types?"
    /\ ret.err.Pos = 4 /\ ret.t = Nil

RECURSIVE NoPointerToVoid(_)
\* no Pointer inside t has Void as its pointee
NoPointerToVoid(t) ==
    CASE t.kind = "Pointer" -> t.elem # Void /\ NoPointerToVoid(t.elem)
      [] t.kind = "Array" -> NoPointerToVoid(t.elem)
      [] t.kind = "Signature" ->
            /\ \A i \in 1..Len(t.params) : NoPointerToVoid(t.params[i])
            /\ \A i \in 1..Len(t.results) : NoPointerToVoid(t.results[i])
      [] OTHER -> TRUE

\* C19: no type that ParseType returns has a Pointer whose pointee is
\* Void: `void *` is the unsafe pointer, `void **` a Pointer to it, and
\* an array of Void in parameter context decays to the unsafe pointer.
C19_NoPointerToVoid ==
    /\ Returned => NoPointerToVoid(ret.t)
    /\ (Done("ParseType") /\ qualType = Toks(<<"void", "*">>)) =>
          ret.err = NoErr /\ ret.t = UnsafePointer
    /\ (Done("ParseType") /\ qualType = Toks(<<"void", "*", "*">>)) =>
          ret.err = NoErr /\ ret.t = NewPointer(UnsafePointer)
    /\ (Done("ParseType") /\ qualType = Toks(<<"void", "[", "3", "]">>) /\ isParam(inFlags)) =>
          ret.err = NoErr /\ ret.t = UnsafePointer

C19_Witness ==
    /\ Succeeded /\ inFlags = FlagIsParam /\ qualType = Toks(<<"void", "[", "3", "]">>)
    /\ ret.t = UnsafePointer
    /\ ParseType(Toks(<<"void", "*">>), 0).t = UnsafePointer

\* the call run step by step ends as the call made in one step
RunAgrees == (op = "ParseTypeRun" /\ pc = "done") => ret = ParseType(qualType, inFlags)

\* every token is read once; the end of input is read once, or twice when
\* parseArrays has met it and the for loop of parse reads it again
ReadsBounded == mach.reads <= Len(qualType) + 2

\* a `goto retry` is taken once for the token read before it: the token
\* dispatched again is no identifier and no qualifier flag is pending
RetryOnce ==
    /\ mach.retries <= 1
    /\ (At("parse", {"retry"}) /\ mach.retries = 1) =>
          mach.p.tok # "IDENT" /\ Top(mach).q = 0

\* a turn of a loop reads a token or leaves the loop: the for loop of
\* parse, the nextTok loop and the switch behind `)` read one, a turn of
\* parseArrays reads one or returns, and a turn of parseArgs calls parse,
\* which starts with p.next()
LoopTurn ==
    /\ At("parse", {"loop", "nextTok", "declarator"}) => mach'.reads > mach.reads
    /\ At("parse", {"parseArrays"}) =>
          mach'.reads > mach.reads \/ Len(mach'.stack) < Len(mach.stack)
    /\ At("parseArgs", {"call"}) =>
          /\ Len(mach'.stack) = Len(mach.stack) + 1
          /\ Top(mach').fn = "parse" /\ Top(mach').pc = "loop"

\* once the end of input has been read, the one read that may follow is
\* the p.next() at the head of the for loop of parse, and a parse that
\* finds EOF as its token returns
EOFEndsReading ==
    /\ (mach.reads > Len(qualType) /\ mach'.reads > mach.reads) => At("parse", {"loop"})
    /\ (At("parse", {"retry"}) /\ mach.p.tok = "EOF") => Len(mach'.stack) < Len(mach.stack)

\* C20: every ParseType call ends (it returns, or the process ends in
\* log.Fatalln) after at most Len + 2 token reads: each turn of the loops
\* of parse, nextTok, parseArrays and parseArgs reads a token or leaves
\* the loop, a `goto retry` is taken at most once per token read, and once
\* the end of input has been read every loop that finds it exits.
C20_Termination ==
    /\ [](ReadsBounded /\ RetryOnce)
    /\ [][LoopTurn /\ EOFEndsReading]_vars
    /\ <>(pc = "done")

C20_Witness ==
    /\ op = "ParseTypeRun" /\ pc = "done" /\ inFlags = 0
    /\ qualType = Toks(<<"unsigned", "(", "*", "(", "long", ",", "int", ")", ")", "[", "3", "]", "[", "]">>)
    /\ mach.reads = Len(qualType) + 2
    /\ ret.err = NoErr /\ ret.t.kind = "Signature"

====
